---- MODULE Spec2Model ----
(***************************************************************************)
(* Discrete-event simulation of three order-fulfilment architectures      *)
(* (Monolithic, RPA, MAS) as run by run_simulation in                      *)
(* src/src/simulation_main.py.  One action is one step of the simpy        *)
(* environment: the event at the head of the event queue is popped, the    *)
(* clock moves to its time and its callbacks run (a process is resumed and *)
(* runs to its next yield, or a pool's put queue is triggered).            *)
(*                                                                         *)
(* Time is integral.  Probabilities are in percent (0.10 is 10).           *)
(***************************************************************************)
EXTENDS Integers, Sequences, FiniteSets, TLC

VARIABLES
    mode,          \* run_simulation's argument: "Monolithic", "RPA" or "MAS"
    RESOURCES,     \* worker threads (module-level configuration)
    FAILURE_PROB,  \* base failure probability, in percent
    ARRIVAL_RATE,  \* the arrival-rate parameter (Poisson lambda in the configuration)
    raised,        \* the exception that ended run_simulation, or "none"
    now,           \* env.now
    queue,         \* the environment's event queue, in processing order
    users,         \* per pool: the requests (by order id) holding a slot
    put_queue,     \* per pool: the pending requests (by order id), oldest first
    orders,        \* the Order objects and the position of each one's process
    stats,         \* {'completed', 'errors', 'cycle_times'}
    ended          \* env.run(until=SIM_TIME) has returned

params == <<mode, RESOURCES, FAILURE_PROB, ARRIVAL_RATE>>
vars == <<mode, RESOURCES, FAILURE_PROB, ARRIVAL_RATE, raised,
          now, queue, users, put_queue, orders, stats, ended>>

(***************************************************************************)
(* Bounds of the model.                                                    *)
(***************************************************************************)
\* The arrival generator stops after this many orders.
MaxOrders == 3
\* Episode duration (the program runs 1000 time units; the model a shorter episode).
SIM_TIME == 45

(***************************************************************************)
(* Configuration and random draws.                                         *)
(***************************************************************************)
Modes == {"Monolithic", "RPA", "MAS"}
\* Values of RESOURCES the episodes are run with: the shared pool and the
\* MAS credit pool get capacity 1 or 2, the four RPA pools capacity 1.
ResourceChoices(m) ==
    IF m = "Monolithic" THEN {1, 2} ELSE IF m = "RPA" THEN {1} ELSE {1, 4}
\* Values of FAILURE_PROB (percent) the episodes are run with.
FailureProbChoices == {10}
\* Probability (percent) that MAS pushes a failed credit check through.
OVERRIDE_PROB == 60
\* random.random() in percent: one draw below the default FAILURE_PROB, one
\* above OVERRIDE_PROB.
random == {5, 70}
FailsInverted(r) == r > FAILURE_PROB
\* The credit check fails: random.random() < FAILURE_PROB.
Fails(r) == r < FAILURE_PROB
\* random.uniform(lo, hi): the two ends of the range.
uniform(lo, hi) == {lo, hi}

StageRangeSlip(m, s) ==
    IF s = "Credit" THEN <<4, 15>>
    ELSE IF s = "Inventory" THEN <<2, 8>>
    ELSE IF s = "Fulfillment" THEN <<4, 12>>
    ELSE IF s = "Billing" THEN <<1, 5>>
    ELSE <<5, 12>>
\* The range of the time advance of stage s in the process model of mode m.
StageRange(m, s) ==
    IF m = "Monolithic"
    THEN IF s = "Credit" THEN <<5, 15>>
         ELSE IF s = "Inventory" THEN <<3, 8>>
         ELSE IF s = "Fulfillment" THEN <<5, 12>>
         ELSE <<2, 5>>
    ELSE IF m = "RPA"
    THEN IF s = "Credit" THEN <<4, 10>>
         ELSE IF s = "Inventory" THEN <<2, 6>>
         ELSE IF s = "Fulfillment" THEN <<4, 10>>
         ELSE <<1, 4>>
    ELSE IF s = "Credit" THEN <<6, 12>> ELSE <<5, 10>>

\* random.uniform over the range of stage s.
Delay(m, s) == uniform(StageRange(m, s)[1], StageRange(m, s)[2])

\* Rationals as <<numerator, denominator>>.
Reciprocal(x) == <<x[2], x[1]>>
RatEq(x, y) == x[1] * y[2] = y[1] * x[2]
RatLess(x, y) ==
    IF x[2] * y[2] > 0 THEN x[1] * y[2] < y[1] * x[2] ELSE x[1] * y[2] > y[1] * x[2]

\* Values of ARRIVAL_RATE the episodes are run with.
ArrivalRateChoices == {5}
\* The argument of random.expovariate: 1.0 / rate.
Lambd(rate) == <<1, rate>>
\* The mean of random.expovariate(lambd) is 1 / lambd.
MeanGap(lambd) == Reciprocal(lambd)
\* random.expovariate(lambd): inter-arrival gaps at 1/5 and 14/5 of the mean
\* (below zero when lambd is).
expovariate(lambd) ==
    {(k * MeanGap(lambd)[1]) \div (5 * MeanGap(lambd)[2]) : k \in {1, 14}}

\* Event priorities of the environment.
URGENT == 0
NORMAL == 1
\* The arrival generator's process id; orders are numbered from 1.
GENERATOR == 0

AllPools == {"shared", "credit", "inventory", "fulfillment", "billing"}
\* The pools run_simulation constructs for a mode.
PoolsOf(m) == IF m = "Monolithic" THEN {"shared"}
              ELSE {"credit", "inventory", "fulfillment", "billing"}

\* Python's int(x / 4): truncation toward zero.
IntDiv4(x) == IF x >= 0 THEN x \div 4 ELSE -((-x) \div 4)

CapacityCeil(m, res, p) ==
    IF p \notin PoolsOf(m) THEN 0
    ELSE IF m = "Monolithic" THEN res
    ELSE (res + 3) \div 4
CapacityOffByOne(m, res, p) == IF p \in PoolsOf(m) THEN res + 1 ELSE 0
\* Capacity of pool p as constructed by run_simulation.
Capacity(m, res, p) ==
    IF p \notin PoolsOf(m) THEN 0
    ELSE IF m = "Monolithic" THEN res
    ELSE IntDiv4(res) + 1

\* len(pool.users): the number of granted slots.
InUse(p) == Cardinality(users[p])

(***************************************************************************)
(* The event queue: events are processed by (time, priority, creation).    *)
(***************************************************************************)
Event(t, prio, kind, who, pool) ==
    [time |-> t, prio |-> prio, kind |-> kind, who |-> who, pool |-> pool]

\* a is processed before a newly created b.
Precedes(a, b) == a.time < b.time \/ (a.time = b.time /\ a.prio <= b.prio)

\* env.schedule: insert behind every event of the same or an earlier key.
Schedule(q, ev) ==
    LET k == Cardinality({i \in 1..Len(q) : Precedes(q[i], ev)})
    IN  SubSeq(q, 1, k) \o <<ev>> \o SubSeq(q, k + 1, Len(q))

(***************************************************************************)
(* Resource pools.  rs is [users, put_queue, queue].                       *)
(***************************************************************************)
TriggerPutNoCheck(rs, p, t) ==
    IF rs.put_queue[p] # <<>>
    THEN [users |-> [rs.users EXCEPT ![p] = @ \cup {Head(rs.put_queue[p])}],
          put_queue |-> [rs.put_queue EXCEPT ![p] = Tail(@)],
          queue |-> Schedule(rs.queue, Event(t, NORMAL, "Request", Head(rs.put_queue[p]), p))]
    ELSE rs
TriggerPutLast(rs, p, t) ==
    IF rs.put_queue[p] # <<>> /\ Cardinality(rs.users[p]) < Capacity(mode, RESOURCES, p)
    THEN LET n == Len(rs.put_queue[p]) IN
         [users |-> [rs.users EXCEPT ![p] = @ \cup {rs.put_queue[p][n]}],
          put_queue |-> [rs.put_queue EXCEPT ![p] = SubSeq(@, 1, n - 1)],
          queue |-> Schedule(rs.queue, Event(t, NORMAL, "Request", rs.put_queue[p][n], p))]
    ELSE rs
\* The pool's put trigger: the oldest pending request is granted if a slot is
\* free, and its event is scheduled; at most one request per call.
TriggerPut(rs, p, t) ==
    IF rs.put_queue[p] # <<>> /\ Cardinality(rs.users[p]) < Capacity(mode, RESOURCES, p)
    THEN [users |-> [rs.users EXCEPT ![p] = @ \cup {Head(rs.put_queue[p])}],
          put_queue |-> [rs.put_queue EXCEPT ![p] = Tail(@)],
          queue |-> Schedule(rs.queue, Event(t, NORMAL, "Request", Head(rs.put_queue[p]), p))]
    ELSE rs

\* pool.request(): the request joins the put queue and the put trigger runs.
Request(rs, p, o, t) ==
    TriggerPut([rs EXCEPT !.put_queue[p] = Append(@, o)], p, t)

ReleaseLeak(rs, p, o, t) ==
    [rs EXCEPT !.queue = Schedule(@, Event(t, NORMAL, "Release", GENERATOR, p))]
\* Leaving the with block: the slot is returned at once and a Release event,
\* whose callback is the put trigger, is scheduled.
Release(rs, p, o, t) ==
    [rs EXCEPT !.users[p] = @ \ {o},
               !.queue = Schedule(@, Event(t, NORMAL, "Release", GENERATOR, p))]

\* env.timeout(d), yielded by process o.
Timeout(rs, o, t, d) ==
    [rs EXCEPT !.queue = Schedule(@, Event(t + d, NORMAL, "Timeout", o, "none"))]

(***************************************************************************)
(* Orders.                                                                 *)
(***************************************************************************)
\* Order.__init__, and the process at its start.  req_at, waited, granted_at
\* and finish_time are history: the time of the pending request, the total
\* time spent waiting for slots, the time the first slot was granted (-1
\* before) and the time the process ended.
Order(t) ==
    [arrival_time |-> t, is_error |-> FALSE,
     start_process_time |-> 0, end_process_time |-> 0,
     pc |-> "Start", req_at |-> 0, waited |-> 0, granted_at |-> 0 - 1, finish_time |-> 0]

Terminal == {"Done", "Rejected"}

CompleteNoCycleTime(st, ord, t, err) ==
    [completed |-> st.completed + 1,
     errors |-> IF err THEN st.errors + 1 ELSE st.errors,
     cycle_times |-> IF err THEN st.cycle_times
                     ELSE Append(st.cycle_times, t - ord.arrival_time)]
CompleteDirtyOnly(st, ord, t, err) ==
    [completed |-> IF err THEN st.completed ELSE st.completed + 1,
     errors |-> IF err THEN st.errors + 1 ELSE st.errors,
     cycle_times |-> Append(st.cycle_times, t - ord.arrival_time)]
\* stats after an order completes: 'completed' and 'cycle_times' (and 'errors').
Complete(st, ord, t, err) ==
    [completed |-> st.completed + 1,
     errors |-> IF err THEN st.errors + 1 ELSE st.errors,
     cycle_times |-> Append(st.cycle_times, t - ord.arrival_time)]

RejectStatsCounted(st) == [st EXCEPT !.errors = @ + 1]
\* monolithic_process on a failed check: stats['errors'] += 0.
RejectStats(st) == [st EXCEPT !.errors = @ + 0]

Result(ord, rs, st) == [order |-> ord, rs |-> rs, stats |-> st]

(***************************************************************************)
(* The three process models.  Each operator is the resumption of order     *)
(* o's process at time t from the position ord.pc up to its next yield (or *)
(* its end); the result is the set of outcomes over the random draws.      *)
(***************************************************************************)
Granted(ord, t) ==
    [ord EXCEPT !.waited = @ + (t - ord.req_at),
                !.granted_at = IF @ < 0 THEN t ELSE @]
Finish(ord, pc, t) == [ord EXCEPT !.pc = pc, !.finish_time = t]

\* monolithic_process: one slot of the shared pool is held through all stages.
monolithic_process(o, ord, rs, st, t) ==
    IF ord.pc = "Start"
    THEN \* with resource.request() as req: yield req
         {Result([ord EXCEPT !.pc = "Queued", !.req_at = t], Request(rs, "shared", o, t), st)}
    ELSE IF ord.pc = "Queued"
    THEN \* order.start_process_time = env.now; yield env.timeout(...)
         {Result([Granted(ord, t) EXCEPT !.pc = "Credit", !.start_process_time = t],
                 Timeout(rs, o, t, d), st) : d \in Delay("Monolithic", "Credit")}
    ELSE IF ord.pc = "Credit"
    THEN \* if random.random() < FAILURE_PROB: return (leaving the with block)
         UNION {IF Fails(r)
                THEN {Result(Finish(ord, "Rejected", t), Release(rs, "shared", o, t),
                             RejectStats(st))}
                ELSE {Result([ord EXCEPT !.pc = "Inventory"], Timeout(rs, o, t, d), st)
                         : d \in Delay("Monolithic", "Inventory")}
                : r \in random}
    ELSE IF ord.pc = "Inventory"
    THEN {Result([ord EXCEPT !.pc = "Fulfillment"], Timeout(rs, o, t, d), st)
             : d \in Delay("Monolithic", "Fulfillment")}
    ELSE IF ord.pc = "Fulfillment"
    THEN {Result([ord EXCEPT !.pc = "Billing"], Timeout(rs, o, t, d), st)
             : d \in Delay("Monolithic", "Billing")}
    ELSE \* pc = "Billing": end_process_time, stats, then the with block is left
         {Result(Finish([ord EXCEPT !.end_process_time = t], "Done", t),
                 Release(rs, "shared", o, t), Complete(st, ord, t, FALSE))}

NextStageNested(o, ord, rs, st, t, pool, next, pc) ==
    Result([ord EXCEPT !.pc = pc, !.req_at = t], Request(rs, next, o, t), st)
\* One RPA stage ends: its pool is released and the next stage's pool requested.
NextStage(o, ord, rs, st, t, pool, next, pc) ==
    Result([ord EXCEPT !.pc = pc, !.req_at = t],
           Request(Release(rs, pool, o, t), next, o, t), st)

\* rpa_process: each stage acquires and releases its own pool.
rpa_process(o, ord, rs, st, t) ==
    IF ord.pc = "Start"
    THEN \* order.start_process_time = env.now; request the credit pool
         {Result([ord EXCEPT !.pc = "WaitCredit", !.req_at = t, !.start_process_time = t],
                 Request(rs, "credit", o, t), st)}
    ELSE IF ord.pc = "WaitCredit"
    THEN {Result([Granted(ord, t) EXCEPT !.pc = "Credit"], Timeout(rs, o, t, d), st)
             : d \in Delay("RPA", "Credit")}
    ELSE IF ord.pc = "Credit"
    THEN {IF Fails(r)
          THEN Result(Finish(ord, "Rejected", t), Release(rs, "credit", o, t), st)
          ELSE NextStage(o, ord, rs, st, t, "credit", "inventory", "WaitInventory")
          : r \in random}
    ELSE IF ord.pc = "WaitInventory"
    THEN {Result([Granted(ord, t) EXCEPT !.pc = "Inventory"], Timeout(rs, o, t, d), st)
             : d \in Delay("RPA", "Inventory")}
    ELSE IF ord.pc = "Inventory"
    THEN {NextStage(o, ord, rs, st, t, "inventory", "fulfillment", "WaitFulfillment")}
    ELSE IF ord.pc = "WaitFulfillment"
    THEN {Result([Granted(ord, t) EXCEPT !.pc = "Fulfillment"], Timeout(rs, o, t, d), st)
             : d \in Delay("RPA", "Fulfillment")}
    ELSE IF ord.pc = "Fulfillment"
    THEN {NextStage(o, ord, rs, st, t, "fulfillment", "billing", "WaitBilling")}
    ELSE IF ord.pc = "WaitBilling"
    THEN {Result([Granted(ord, t) EXCEPT !.pc = "Billing"], Timeout(rs, o, t, d), st)
             : d \in Delay("RPA", "Billing")}
    ELSE \* pc = "Billing": the billing pool is released, then end_process_time and stats
         {Result(Finish([ord EXCEPT !.end_process_time = t], "Done", t),
                 Release(rs, "billing", o, t), Complete(st, ord, t, FALSE))}

\* mas_process: only the credit pool is acquired; a failed check is pushed
\* through as an error with probability OVERRIDE_PROB.
mas_process(o, ord, rs, st, t) ==
    IF ord.pc = "Start"
    THEN {Result([ord EXCEPT !.pc = "WaitCredit", !.req_at = t, !.start_process_time = t],
                 Request(rs, "credit", o, t), st)}
    ELSE IF ord.pc = "WaitCredit"
    THEN {Result([Granted(ord, t) EXCEPT !.pc = "Credit"], Timeout(rs, o, t, d), st)
             : d \in Delay("MAS", "Credit")}
    ELSE IF ord.pc = "Credit"
    THEN UNION {
           IF Fails(r1) /\ ~(r2 < OVERRIDE_PROB)
           THEN {Result(Finish(ord, "Rejected", t), Release(rs, "credit", o, t), st)}
           ELSE {Result([ord EXCEPT !.pc = "Pipelined",
                                    !.is_error = Fails(r1)],
                        Timeout(Release(rs, "credit", o, t), o, t, d), st)
                    : d \in Delay("MAS", "Pipelined")}
           : r1 \in random, r2 \in random}
    ELSE \* pc = "Pipelined": end_process_time, then errors/completed and cycle_times
         {Result(Finish([ord EXCEPT !.end_process_time = t], "Done", t),
                 rs, Complete(st, ord, t, ord.is_error))}

processRpa(o, ord, rs, st, t) ==
    IF mode = "Monolithic" THEN monolithic_process(o, ord, rs, st, t)
    ELSE rpa_process(o, ord, rs, st, t)
processMas(o, ord, rs, st, t) ==
    IF mode = "Monolithic" THEN monolithic_process(o, ord, rs, st, t)
    ELSE mas_process(o, ord, rs, st, t)
\* The process model run_simulation's generator starts for the mode.
process(o, ord, rs, st, t) ==
    IF mode = "Monolithic" THEN monolithic_process(o, ord, rs, st, t)
    ELSE IF mode = "RPA" THEN rpa_process(o, ord, rs, st, t)
    ELSE mas_process(o, ord, rs, st, t)

(***************************************************************************)
(* The episode.                                                            *)
(***************************************************************************)
order_id == Len(orders)

UntilLate == Event(SIM_TIME + 1, URGENT, "Until", GENERATOR, "none")
\* env.run(until=SIM_TIME): an urgent event at SIM_TIME that stops the run.
UntilEvent == Event(SIM_TIME, URGENT, "Until", GENERATOR, "none")

\* simpy.Resource(env, capacity) raises ValueError unless capacity > 0.
ConstructionError(m, res) ==
    IF \E p \in PoolsOf(m) : Capacity(m, res, p) <= 0 THEN "ValueError" ELSE "none"

\* The state run_simulation(m) starts env.run in, or raises from, under the
\* configuration (res, pf, rate).
Setup(m, res, pf, rate) ==
    /\ mode = m
    /\ RESOURCES = res
    /\ FAILURE_PROB = pf
    /\ ARRIVAL_RATE = rate
    /\ raised = ConstructionError(m, res)
    /\ now = 0
    \* env.process(order_generator()), then env.run(until=SIM_TIME)
    /\ queue = IF ConstructionError(m, res) = "none"
               THEN <<Event(0, URGENT, "Initialize", GENERATOR, "none"), UntilEvent>>
               ELSE <<>>
    /\ users = [p \in AllPools |-> {}]
    /\ put_queue = [p \in AllPools |-> <<>>]
    /\ orders = <<>>
    /\ stats = [completed |-> 0, errors |-> 0, cycle_times |-> <<>>]
    /\ ended = FALSE

Init ==
    \E m \in Modes : \E res \in ResourceChoices(m) :
        \E pf \in FailureProbChoices : \E rate \in ArrivalRateChoices :
            Setup(m, res, pf, rate)

\* The event the next step of the environment pops.
head == queue[1]
Popped == [users |-> users, put_queue |-> put_queue, queue |-> Tail(queue)]

\* env.run is stepping: nothing was raised and the until event is ahead.
Running == raised = "none" /\ ~ended

\* What the generator's yield env.timeout(random.expovariate(1.0 / rate))
\* raises: a division by zero, or a negative delay refused by env.timeout.
GeneratorError(rate) ==
    IF rate = 0 THEN "ZeroDivisionError"
    ELSE IF \E g \in expovariate(Lambd(rate)) : g < 0 THEN "ValueError"
    ELSE "none"

\* The set of next inter-arrival timeouts of the generator (none past MaxOrders).
NextArrival(q, n, t) ==
    IF n < MaxOrders
    THEN {Schedule(q, Event(t + g, NORMAL, "Timeout", GENERATOR, "none"))
             : g \in expovariate(Lambd(ARRIVAL_RATE))}
    ELSE {q}

\* order_generator runs to its first yield.
StartGenerator ==
    /\ Running /\ head.kind = "Initialize" /\ head.who = GENERATOR
    /\ now' = head.time
    /\ IF GeneratorError(ARRIVAL_RATE) = "none"
       THEN /\ queue' \in NextArrival(Tail(queue), order_id, head.time)
            /\ raised' = raised
       ELSE /\ queue' = Tail(queue)
            /\ raised' = GeneratorError(ARRIVAL_RATE)
    /\ UNCHANGED <<params, users, put_queue, orders, stats, ended>>

\* The generator's timeout fires: an Order is created, its process started
\* (an urgent Initialize event) and the next inter-arrival timeout yielded.
Arrival ==
    /\ Running /\ head.kind = "Timeout" /\ head.who = GENERATOR
    /\ now' = head.time
    /\ orders' = Append(orders, Order(head.time))
    /\ queue' \in NextArrival(
                     Schedule(Tail(queue),
                              Event(head.time, URGENT, "Initialize", order_id + 1, "none")),
                     order_id + 1, head.time)
    /\ UNCHANGED <<params, raised, users, put_queue, stats, ended>>

\* An order's process is resumed by the event it waits for (its start, a
\* granted request or a timeout) and runs to its next yield or its end.
Resume ==
    /\ Running /\ head.kind \in {"Initialize", "Request", "Timeout"} /\ head.who # GENERATOR
    /\ now' = head.time
    /\ \E res \in process(head.who, orders[head.who], Popped, stats, head.time) :
          /\ orders' = [orders EXCEPT ![head.who] = res.order]
          /\ users' = res.rs.users
          /\ put_queue' = res.rs.put_queue
          /\ queue' = res.rs.queue
          /\ stats' = res.stats
    /\ UNCHANGED <<params, raised, ended>>

\* A Release event is processed: its callback is the pool's put trigger.
ReleaseCallback ==
    /\ Running /\ head.kind = "Release"
    /\ now' = head.time
    /\ LET rs == TriggerPut(Popped, head.pool, head.time) IN
          /\ users' = rs.users
          /\ put_queue' = rs.put_queue
          /\ queue' = rs.queue
    /\ UNCHANGED <<params, raised, orders, stats, ended>>

\* The until event: env.run returns; what is still suspended is abandoned.
Until ==
    /\ Running /\ head.kind = "Until"
    /\ now' = head.time
    /\ queue' = Tail(queue)
    /\ ended' = TRUE
    /\ UNCHANGED <<params, raised, users, put_queue, orders, stats>>

Next == StartGenerator \/ Arrival \/ Resume \/ ReleaseCallback \/ Until

Spec == Init /\ [][Next]_vars

(***************************************************************************)
(* The scenario p_fail = 0 and p_fail = 1, under the default arrival rate. *)
(***************************************************************************)
PFailScenarios == {0, 100}

InitPFail ==
    \E m \in Modes : \E res \in ResourceChoices(m) :
        \E pf \in PFailScenarios : \E rate \in ArrivalRateChoices :
            Setup(m, res, pf, rate)

SpecPFail == InitPFail /\ [][Next]_vars

(***************************************************************************)
(* Other configurations: RESOURCES zero or negative, ARRIVAL_RATE zero or  *)
(* negative, and the stress test's arrival rate 8.                         *)
(***************************************************************************)
MisuseResources == {0, 0 - 4}
RateScenarios == {0, 0 - 5, 8}

InitConfig ==
    \E m \in Modes : \E pf \in FailureProbChoices :
        \/ \E res \in MisuseResources : \E rate \in ArrivalRateChoices :
              Setup(m, res, pf, rate)
        \/ \E res \in ResourceChoices(m) : \E rate \in RateScenarios :
              Setup(m, res, pf, rate)

SpecConfig == InitConfig /\ [][Next]_vars

(***************************************************************************)
(* The aggregation loop's reading of an episode's statistics.              *)
(***************************************************************************)
ErrorRateOfAttempts(st) ==
    IF st.completed > 0 THEN <<st.errors * 100, order_id>> ELSE <<0, 1>>
\* The episode's error rate in percent, a rational:
\* (s['errors'] / s['completed']) * 100, or 0 when nothing completed.
ErrorRate(st) ==
    IF st.completed > 0 THEN <<st.errors * 100, st.completed>> ELSE <<0, 1>>

RECURSIVE Sum(_)
Sum(xs) == IF xs = <<>> THEN 0 ELSE Head(xs) + Sum(Tail(xs))
\* The episode's mean cycle time, a rational: np.mean(s['cycle_times']), or 0
\* when the list is empty.
MeanCycle(st) ==
    IF st.cycle_times # <<>> THEN <<Sum(st.cycle_times), Len(st.cycle_times)>>
    ELSE <<0, 1>>

(***************************************************************************)
(* Properties.                                                             *)
(***************************************************************************)
Range(f) == {f[i] : i \in DOMAIN f}
Ids == DOMAIN orders
\* The pools in which order o holds a slot, and those in whose queue it waits.
Held(o) == {p \in AllPools : o \in users[p]}
Waiting(o) == {p \in AllPools : o \in Range(put_queue[p])}
\* Order o's process has been resumed with its first slot granted.
InService(o) == orders[o].pc \notin {"Start", "Queued", "WaitCredit"}
CycleTime(o) == orders[o].end_process_time - orders[o].arrival_time
Pending(kind, who, pool) ==
    \E i \in DOMAIN queue :
        queue[i].kind = kind /\ queue[i].who = who /\ queue[i].pool = pool

\* C1: for every pool of the mode, 0 <= in_use <= capacity in every state, and
\* a step grants a slot of a pool only from a state where in_use < capacity.
C1_PoolBounds ==
    /\ [](\A p \in PoolsOf(mode) :
             0 <= InUse(p) /\ InUse(p) <= Capacity(mode, RESOURCES, p))
    /\ [][\A p \in PoolsOf(mode) :
             users'[p] \ users[p] # {} => InUse(p) < Capacity(mode, RESOURCES, p)]_vars
\* A pool of capacity 2 is full while a request waits in its queue.
C1_Witness ==
    \E p \in PoolsOf(mode) :
        /\ Capacity(mode, RESOURCES, p) = 2
        /\ InUse(p) = 2
        /\ put_queue[p] # <<>>

\* C2: grants are FIFO: a step that grants a slot of pool p to order o leaves
\* no request pending on p that was queued before o's, and if requests were
\* pending before the step the slot goes to the oldest of them, also when the
\* step itself submits a new request.
C2_Fifo ==
    [][\A p \in PoolsOf(mode) : \A o \in users'[p] \ users[p] :
          /\ \A q \in Range(put_queue'[p]) : orders'[o].req_at <= orders'[q].req_at
          /\ put_queue[p] # <<>> => o = Head(put_queue[p])]_vars
\* A slot was released, and before the Release event is processed a new order
\* requested the pool: the slot went to the older waiter (its Request event is
\* scheduled) and the new request waits.
C2_Witness ==
    /\ mode = "Monolithic" /\ RESOURCES = 1
    /\ Pending("Release", GENERATOR, "shared")
    /\ \E i \in Ids : \E j \in Ids :
          /\ Pending("Request", i, "shared")
          /\ put_queue["shared"] = <<j>>
          /\ orders[i].req_at < orders[j].req_at
          /\ orders[j].req_at = now

\* C3: errors <= completed <= number of orders generated.
C3_Counts ==
    /\ stats.errors <= stats.completed
    /\ stats.completed <= order_id
\* Dirty and clean completions, and an order that did not complete.
C3_Witness ==
    /\ stats.errors >= 1
    /\ stats.errors < stats.completed
    /\ stats.completed < order_id

\* C4: in Monolithic and RPA episodes errors is 0 and no order carries
\* is_error; a failed credit check only rejects the order.
C4_NoErrors ==
    mode \in {"Monolithic", "RPA"} =>
        /\ stats.errors = 0
        /\ \A o \in Ids : ~orders[o].is_error
\* A Monolithic or RPA order failed its credit check, and another completed.
C4_Witness ==
    /\ mode \in {"Monolithic", "RPA"}
    /\ \E o \in Ids : orders[o].pc = "Rejected"
    /\ stats.completed >= 1

\* C5 as stated: every Monolithic cycle time lies in [15, 40].
C5_Original ==
    mode = "Monolithic" => \A i \in DOMAIN stats.cycle_times :
        15 <= stats.cycle_times[i] /\ stats.cycle_times[i] <= 40
\* C5: every Monolithic cycle time is at least 15, and is recorded for an order
\* whose time from the grant of the slot to its end (end_process_time -
\* start_process_time) lies in [15, 40]; the time spent waiting for the slot
\* adds to the cycle time without bound.
C5_CycleTime ==
    mode = "Monolithic" =>
        /\ \A i \in DOMAIN stats.cycle_times : 15 <= stats.cycle_times[i]
        /\ \A o \in Ids : orders[o].pc = "Done" =>
              /\ CycleTime(o) \in Range(stats.cycle_times)
              /\ CycleTime(o) = orders[o].waited
                     + (orders[o].end_process_time - orders[o].start_process_time)
              /\ 15 <= orders[o].end_process_time - orders[o].start_process_time
              /\ orders[o].end_process_time - orders[o].start_process_time <= 40
\* A Monolithic order completed in 15 time units, and one that waited for the
\* slot completed with a cycle time above 40.
C5_Witness ==
    /\ mode = "Monolithic"
    /\ \E o \in Ids : orders[o].pc = "Done" /\ CycleTime(o) = 15
    /\ \E o \in Ids : orders[o].pc = "Done" /\ orders[o].waited > 0 /\ CycleTime(o) > 40

\* C6 as stated: every RPA cycle time lies in [11, 30].
C6_Original ==
    mode = "RPA" => \A i \in DOMAIN stats.cycle_times :
        11 <= stats.cycle_times[i] /\ stats.cycle_times[i] <= 30
\* C6: every RPA cycle time is at least 11, and less the time the order spent
\* waiting for slots of the four pools it lies in [11, 30].
C6_CycleTime ==
    mode = "RPA" =>
        /\ \A i \in DOMAIN stats.cycle_times : 11 <= stats.cycle_times[i]
        /\ \A o \in Ids : orders[o].pc = "Done" =>
              /\ CycleTime(o) \in Range(stats.cycle_times)
              /\ 11 <= CycleTime(o) - orders[o].waited
              /\ CycleTime(o) - orders[o].waited <= 30
\* RPA orders completed at both ends of the range, one of them after waiting.
C6_Witness ==
    /\ mode = "RPA"
    /\ \E o \in Ids : orders[o].pc = "Done" /\ CycleTime(o) = 11
    /\ \E o \in Ids : orders[o].pc = "Done" /\ orders[o].waited > 0
                      /\ CycleTime(o) - orders[o].waited = 30

\* C7 as stated: every MAS cycle time lies in [11, 22].
C7_Original ==
    mode = "MAS" => \A i \in DOMAIN stats.cycle_times :
        11 <= stats.cycle_times[i] /\ stats.cycle_times[i] <= 22
\* C7: every MAS cycle time, of a clean or a dirty completion, is at least 11,
\* and less the time the order spent waiting for the credit slot it lies in
\* [11, 22].
C7_CycleTime ==
    mode = "MAS" =>
        /\ \A i \in DOMAIN stats.cycle_times : 11 <= stats.cycle_times[i]
        /\ \A o \in Ids : orders[o].pc = "Done" =>
              /\ CycleTime(o) \in Range(stats.cycle_times)
              /\ 11 <= CycleTime(o) - orders[o].waited
              /\ CycleTime(o) - orders[o].waited <= 22
\* A clean MAS completion at the lower end, a dirty one at the upper end after waiting.
C7_Witness ==
    /\ mode = "MAS"
    /\ \E o \in Ids : orders[o].pc = "Done" /\ ~orders[o].is_error /\ CycleTime(o) = 11
    /\ \E o \in Ids : orders[o].pc = "Done" /\ orders[o].is_error /\ orders[o].waited > 0
                      /\ CycleTime(o) - orders[o].waited = 22

\* C8: with the Monolithic capacity 1, the intervals from start_process_time to
\* the end of the process (Done or Rejected) of two orders never overlap: of
\* any two orders in service or past it, one ended no later than the other
\* started.
C8_Serialized ==
    (mode = "Monolithic" /\ RESOURCES = 1) =>
        \A i \in Ids : \A j \in Ids \ {i} :
            (InService(i) /\ InService(j)) =>
                \/ orders[i].pc \in Terminal
                     /\ orders[i].finish_time <= orders[j].start_process_time
                \/ orders[j].pc \in Terminal
                     /\ orders[j].finish_time <= orders[i].start_process_time
\* An order was granted the slot at the very time its predecessor ended, having
\* waited for it.
C8_Witness ==
    /\ mode = "Monolithic" /\ RESOURCES = 1
    /\ \E i \in Ids : \E j \in Ids \ {i} :
          /\ orders[i].pc \in Terminal /\ InService(j)
          /\ orders[j].waited > 0
          /\ orders[i].finish_time = orders[j].start_process_time

\* C9: an order's process holds at most one slot over all pools, and holds
\* none while it waits in a pool's queue.
C9_NoHoldAndWait ==
    \A o \in Ids :
        /\ Cardinality(Held(o)) <= 1
        /\ Waiting(o) # {} => Held(o) = {}
\* An RPA order waits for the inventory pool, whose slot another order holds,
\* while a third order holds the credit slot.
C9_Witness ==
    /\ mode = "RPA"
    /\ put_queue["inventory"] # <<>>
    /\ users["inventory"] # {}
    /\ users["credit"] # {}

\* C10 as stated: when the run stops, every started order is Done or Rejected.
C10_Original ==
    ended => \A o \in Ids : orders[o].pc \in Terminal
\* C10: a process that reached Done or Rejected did so strictly before
\* SIM_TIME; when the run stops every other started process is abandoned where
\* it is suspended, in a pool's queue or on an event due at SIM_TIME or later,
\* and only the orders that reached Done are counted.
C10_EpisodeEnd ==
    /\ \A o \in Ids : orders[o].pc \in Terminal => orders[o].finish_time < SIM_TIME
    /\ ended =>
          /\ \A o \in Ids : orders[o].pc \notin Terminal =>
                \/ Waiting(o) # {}
                \/ \E i \in DOMAIN queue : queue[i].who = o /\ queue[i].time >= SIM_TIME
          /\ stats.completed = Cardinality({o \in Ids : orders[o].pc = "Done"})
          /\ Len(stats.cycle_times) = stats.completed
\* The run stopped with one order Done, one queued and one in the middle of a stage.
C10_Witness ==
    /\ ended
    /\ \E o \in Ids : orders[o].pc = "Done"
    /\ \E o \in Ids : Waiting(o) # {}
    /\ \E o \in Ids : orders[o].pc \notin Terminal /\ Waiting(o) = {}

\* C11 as stated: with p_fail = 1 the error rate of a MAS episode with
\* completions is 60%.
C11_Original ==
    (mode = "MAS" /\ FAILURE_PROB = 100 /\ ended /\ stats.completed > 0) =>
        RatEq(ErrorRate(stats), <<60, 1>>)
\* C11: with p_fail = 1 every MAS order fails its credit check, so every order
\* that completes is an error: errors = completed, rejected orders are in
\* neither count, and the error rate of an episode with completions is 100%.
C11_AllDirty ==
    (mode = "MAS" /\ FAILURE_PROB = 100) =>
        /\ stats.errors = stats.completed
        /\ stats.completed = Cardinality({o \in Ids : orders[o].pc = "Done"})
        /\ \A o \in Ids : orders[o].pc \in {"Pipelined", "Done"} => orders[o].is_error
        /\ stats.completed > 0 => RatEq(ErrorRate(stats), <<100, 1>>)
\* A MAS episode with p_fail = 1 ended with two dirty completions and a rejection.
C11_Witness ==
    /\ mode = "MAS" /\ FAILURE_PROB = 100 /\ ended
    /\ stats.completed = 2
    /\ \E o \in Ids : orders[o].pc = "Rejected"

\* C12: with p_fail = 0, in every architecture errors stays 0, no order is
\* rejected or flagged, and the episode's error rate is 0.
C12_NoFailure ==
    FAILURE_PROB = 0 =>
        /\ stats.errors = 0
        /\ \A o \in Ids : orders[o].pc # "Rejected" /\ ~orders[o].is_error
        /\ RatEq(ErrorRate(stats), <<0, 1>>)
\* A MAS episode with p_fail = 0 in which every order passed its credit check
\* and two completed.
C12_Witness ==
    /\ mode = "MAS" /\ FAILURE_PROB = 0
    /\ stats.completed >= 2
    /\ \A o \in Ids : orders[o].pc \in {"Pipelined", "Done"}

\* C13 relates two episodes run with the same draws; it is not stated here.

\* C14: for every architecture, an episode configured with RESOURCES <= 0 or
\* with ARRIVAL_RATE <= 0 has raised a configuration error from its
\* construction on, no order is generated and no statistic changes.
C14_FailFast ==
    (RESOURCES <= 0 \/ ARRIVAL_RATE <= 0) =>
        /\ raised # "none"
        /\ orders = <<>>
        /\ stats = [completed |-> 0, errors |-> 0, cycle_times |-> <<>>]
\* What the code does instead: with RESOURCES = 0 an RPA episode runs to its
\* end on pools of capacity 1 and completes orders.
C14_Runs ==
    /\ mode = "RPA" /\ RESOURCES = 0 /\ raised = "none" /\ ended
    /\ stats.completed >= 1

\* RESOURCES / 4 rounded up: the least c with 4 * c >= r.
Ceil4(r) == CHOOSE c \in 0..r : 4 * c >= r /\ 4 * (c - 1) < r
MaxResources == 8
\* What int(RESOURCES / 4) + 1 is for a positive RESOURCES: the quarter
\* rounded up, and one more than that when RESOURCES is a multiple of 4.
QuarterPlus(r) == Ceil4(r) + (IF r % 4 = 0 THEN 1 ELSE 0)

\* C15 as stated: each RPA/MAS pool has capacity ceil(RESOURCES / 4), so no
\* more than ceil(RESOURCES / 4) slots of a pool are ever in use.
C15_Original ==
    mode \in {"RPA", "MAS"} =>
        \A p \in PoolsOf(mode) :
            /\ Capacity(mode, RESOURCES, p) = Ceil4(RESOURCES)
            /\ InUse(p) <= Ceil4(RESOURCES)
QuarterPools ==
    \A r \in 1..MaxResources : \A m \in {"RPA", "MAS"} :
        \A p \in PoolsOf(m) : Capacity(m, r, p) = QuarterPlus(r)
\* C15: for every RESOURCES in 1..MaxResources each of the four RPA/MAS pools
\* is constructed with capacity ceil(RESOURCES / 4), plus one when RESOURCES
\* is a multiple of 4; that capacity stays in force for the whole episode:
\* in_use never exceeds it, and a request waits only while it is reached or
\* a release of the pool is still to be processed.
C15_QuarterPlusOne ==
    /\ QuarterPools
    /\ mode \in {"RPA", "MAS"} =>
           \A p \in PoolsOf(mode) :
               /\ InUse(p) <= QuarterPlus(RESOURCES)
               /\ (put_queue[p] # <<>> /\ ~Pending("Release", GENERATOR, p))
                      => InUse(p) = QuarterPlus(RESOURCES)
C15_Witness ==
    /\ mode = "MAS" /\ RESOURCES = 4
    /\ InUse("credit") = 2 /\ put_queue["credit"] # <<>>

\* C16: for every positive arrival rate the generator's inter-arrival gaps
\* have mean 1 / ARRIVAL_RATE, and a larger arrival rate (8 instead of 5)
\* gives a strictly shorter mean gap.
C16_MeanGap ==
    ARRIVAL_RATE > 0 =>
        /\ RatEq(MeanGap(Lambd(ARRIVAL_RATE)), <<1, ARRIVAL_RATE>>)
        /\ \A r \in ArrivalRateChoices \cup RateScenarios :
               r > ARRIVAL_RATE =>
                   RatLess(MeanGap(Lambd(r)), MeanGap(Lambd(ARRIVAL_RATE)))

\* Order o terminates successfully, respectively is rejected, in this step.
BecomesDone(o) == orders[o].pc # "Done" /\ orders'[o].pc = "Done"
BecomesRejected(o) == orders[o].pc # "Rejected" /\ orders'[o].pc = "Rejected"

\* C17: in every architecture a step that changes the episode statistics is
\* the Done transition of one order: it adds one to completed, appends one
\* cycle time and adds at most one to errors; every other step (an arrival,
\* an acquire, a release, a time advance, the end of the run) and in
\* particular the rejection of an order leaves completed, errors and
\* cycle_times unchanged.
C17_StatsFrame ==
    [][/\ stats' # stats =>
             \E o \in Ids :
                 /\ BecomesDone(o)
                 /\ stats'.completed = stats.completed + 1
                 /\ Len(stats'.cycle_times) = Len(stats.cycle_times) + 1
                 /\ stats'.errors \in {stats.errors, stats.errors + 1}
       /\ \A o \in Ids : BecomesRejected(o) => stats' = stats
       /\ (head.kind # "Timeout" \/ head.who = GENERATOR) => stats' = stats]_vars
C17_Witness ==
    /\ mode = "Monolithic"
    /\ \E o \in Ids : orders[o].pc = "Rejected"
    /\ \E o \in Ids : orders[o].pc = "Done"
    /\ stats.completed = 1 /\ Len(stats.cycle_times) = 1 /\ stats.errors = 0

\* The order of a Monolithic order's positions.
MonolithicOrder ==
    {<<"Start", "Queued">>, <<"Queued", "Credit">>, <<"Credit", "Inventory">>,
     <<"Credit", "Rejected">>, <<"Inventory", "Fulfillment">>,
     <<"Fulfillment", "Billing">>, <<"Billing", "Done">>}

\* C18: a Monolithic order is granted a slot of the shared pool only while it
\* waits for its one request, holds that slot in Credit, Inventory,
\* Fulfillment and Billing, which it goes through in that order, and gives
\* the slot back in exactly the step in which it becomes Done or, from
\* Credit only, Rejected; a terminated order holds no slot and waits in no
\* queue.
C18_HeldThroughout ==
    /\ [](mode = "Monolithic" =>
            \A o \in Ids :
                /\ orders[o].pc \in {"Credit", "Inventory", "Fulfillment", "Billing"}
                       => Held(o) = {"shared"} /\ Waiting(o) = {}
                /\ orders[o].pc \in {"Start", "Done", "Rejected"}
                       => Held(o) = {} /\ Waiting(o) = {}
                /\ orders[o].pc = "Queued"
                       => \/ Waiting(o) = {"shared"} /\ Held(o) = {}
                          \/ /\ Waiting(o) = {} /\ Held(o) = {"shared"}
                             /\ Pending("Request", o, "shared"))
    /\ [][mode = "Monolithic" =>
             \A o \in Ids :
                 /\ orders'[o].pc # orders[o].pc
                        => <<orders[o].pc, orders'[o].pc>> \in MonolithicOrder
                 /\ (o \in users'["shared"] /\ o \notin users["shared"])
                        => orders'[o].pc = "Queued"
                 /\ (o \in users["shared"] /\ o \notin users'["shared"])
                        <=> (BecomesDone(o) \/ BecomesRejected(o))]_vars
C18_Witness ==
    /\ mode = "Monolithic"
    /\ \E o \in Ids : orders[o].pc = "Done"
    /\ \E o \in Ids : orders[o].pc = "Rejected"
    /\ \E o \in Ids : orders[o].pc = "Billing" /\ Held(o) = {"shared"}

C20_StartAtGrant ==
    \A o \in Ids :
        (InService(o) /\ orders[o].granted_at >= 0)
            => orders[o].start_process_time = orders[o].granted_at

\* C21: in every state of an episode of any architecture the number of
\* recorded cycle times equals completed, so the aggregation's two guards
\* (empty cycle_times, completed = 0) fire together, both averages divide
\* by completed when anything completed, and neither divides by zero.
C21_GuardsAgree ==
    /\ Len(stats.cycle_times) = stats.completed
    /\ (stats.cycle_times = <<>>) <=> (stats.completed = 0)
    /\ MeanCycle(stats)[2] > 0 /\ ErrorRate(stats)[2] > 0
    /\ stats.completed > 0 =>
           /\ MeanCycle(stats)[2] = stats.completed
           /\ ErrorRate(stats)[2] = stats.completed
    /\ stats.completed = 0 =>
           /\ RatEq(MeanCycle(stats), <<0, 1>>)
           /\ RatEq(ErrorRate(stats), <<0, 1>>)
C21_Witness ==
    /\ ended /\ stats.completed = 0 /\ stats.cycle_times = <<>>
    /\ \E o \in Ids : orders[o].pc = "Rejected"
    /\ \E o \in Ids : InService(o) /\ orders[o].pc \notin Terminal

====
